---- MODULE Spec2Model ----
(***************************************************************************)
(* The REST handlers of girder/api/v1/user.py (class User) and of the      *)
(* mongo_search plugin (ResourceExt.mongoSearch), as one state machine.    *)
(* The state is the document store the handlers work on (users, tokens,    *)
(* groups, settings, the clock) and the record of the last request:        *)
(* its arguments, the model operations it called and its HTTP response;    *)
(* reqs holds the POST /user requests that are between two statements.     *)
(***************************************************************************)
EXTENDS Integers, Sequences, FiniteSets, TLC

VARIABLES users, tokens, issued, groups, settings, now, last, reqs

vars == <<users, tokens, issued, groups, settings, now, last, reqs>>

(***************************************************************************)
(* Bounds of the model.                                                    *)
(***************************************************************************)
MaxUsers == 3
MaxTokens == 2
MaxTime == 2
MaxProcs == 2

\* None (Python) for a user or a token: ids are positive.
NoId == 0

\* The ids of the tokens, in the order they are issued; "" is no token.
TokenNames == << "t1", "t2", "t3", "t4", "t5" >>
TokenIds == { TokenNames[i] : i \in 1 .. MaxTokens }

\* The user ids a request may name, one of them (MaxUsers + 1) never stored.
AnyUserId == 1 .. (MaxUsers + 1)

\* The current user of a request: None (anonymous) or a stored user.
Callers == {NoId} \cup DOMAIN users

Min(a, b) == IF a < b THEN a ELSE b

IsAdmin(c) == c \in DOMAIN users /\ users[c].admin

(***************************************************************************)
(* The response of a request that raised: the framework turns a            *)
(* RestException into 400 (or the code given), a ValidationException into  *)
(* 400, an AccessException into 403 for a logged-in caller and 401 for an  *)
(* anonymous one, and anything else into 500.                              *)
(***************************************************************************)
AccessCode(c) == IF c = NoId THEN 401 ELSE 403

Response(op, c, args, code, msg, body, calls, raised) ==
    [op |-> op, caller |-> c, args |-> args, code |-> code, msg |-> msg,
     body |-> body, calls |-> calls, raised |-> raised]

NoRequest == Response("none", NoId, <<>>, 0, "", <<>>, <<>>, {})

(***************************************************************************)
(* mongo_search plugin.                                                    *)
(***************************************************************************)

\* The documents of the store that mongoSearch can reach: every document
\* is a mapping from field names to values; its access control data
\* (public flag, users with READ) is held beside it.
Documents ==
    << [_id |-> "c1", type |-> "collection", name |-> "a", description |-> "x"],
       [_id |-> "f1", type |-> "folder", name |-> "a", description |-> "x"],
       [_id |-> "f2", type |-> "folder", name |-> "b", description |-> "y"],
       [_id |-> "i1", type |-> "item", name |-> "a", description |-> "x"],
       [_id |-> "i2", type |-> "item", name |-> "b", description |-> "y"],
       [_id |-> "u1", type |-> "user", name |-> "a", firstName |-> "A",
        lastName |-> "A", login |-> "admin", salt |-> "s1"],
       [_id |-> "u2", type |-> "user", name |-> "b", firstName |-> "B",
        lastName |-> "B", login |-> "bob", salt |-> "s2"],
       [_id |-> "a1", type |-> "assetstore", name |-> "a", root |-> "/data"],
       [_id |-> "t1", type |-> "token", name |-> "a", userId |-> "u2"] >>

DocAccess ==
    [d \in {"c1", "f1", "f2", "i1", "i2", "u1", "u2", "a1", "t1"} |->
        CASE d = "c1" -> [public |-> TRUE, readers |-> {}]
          [] d = "f1" -> [public |-> TRUE, readers |-> {}]
          [] d = "f2" -> [public |-> FALSE, readers |-> {2}]
          [] d = "i1" -> [public |-> FALSE, readers |-> {2}]
          [] d = "i2" -> [public |-> FALSE, readers |-> {}]
          [] d = "u1" -> [public |-> FALSE, readers |-> {1}]
          [] d = "u2" -> [public |-> TRUE, readers |-> {2}]
          [] d = "a1" -> [public |-> FALSE, readers |-> {}]
          [] OTHER -> [public |-> FALSE, readers |-> {2}]]

\* AccessType.READ on a document: public, granted, or the user is an admin.
HasReadAccess(c, id) ==
    \/ DocAccess[id].public
    \/ c \in DocAccess[id].readers
    \/ IsAdmin(c)

\* The allow-list literal of mongoSearch: the four entries it spells (the
\* source lacks the comma after the 'collection' entry).
allowed ==
    [t \in {"collection", "folder", "item", "user"} |->
        IF t = "user" THEN {"_id", "firstName", "lastName", "login"}
        ELSE {"_id", "name", "description"}]

\* What the handlers of 'mongo_search.allowed_collections' may do to the
\* allow-list they are handed: nothing, add a collection, or replace the
\* fields of one.
EventHandlers ==
    { [t \in {} |-> {}],
      [t \in {"assetstore"} |-> {"_id", "name"}],
      [t \in {"user"} |-> {"_id", "login"}] }

\* events.trigger('mongo_search.allowed_collections', info=allowed)
Trigger(info, ev) ==
    [t \in (DOMAIN info) \cup (DOMAIN ev) |->
        IF t \in DOMAIN ev THEN ev[t] ELSE info[t]]

\* json.loads(params['q']): the query, or "ValueError".
QueryStrings == {"{}", "{\"name\": \"a\"}", "{name: a"}
JsonLoads(q) ==
    CASE q = "{}" -> [ok |-> TRUE, name |-> "*"]
      [] q = "{\"name\": \"a\"}" -> [ok |-> TRUE, name |-> "a"]
      [] OTHER -> [ok |-> FALSE, name |-> ""]

Matches(doc, query) == query.name = "*" \/ doc.name = query.name

\* A page of a cursor: skip `offset`, then at most `limit` (0: no limit).
Page(s, limit, offset) ==
    SubSeq(s, offset + 1,
           IF limit = 0 THEN Len(s) ELSE Min(Len(s), offset + limit))

Project(doc, fields) == [f \in (DOMAIN doc) \cap fields |-> doc[f]]

ProjectAll(s, fields) == [i \in 1 .. Len(s) |-> Project(s[i], fields)]

\* model.find(query, fields=..., limit=..., offset=...)
Find(coll, query, fields, limit, offset) ==
    ProjectAll(
        Page(SelectSeq(Documents,
                       LAMBDA d : d.type = coll /\ Matches(d, query)),
             limit, offset),
        fields)

\* model.filterResultsByPermission(cursor, user, level=READ, limit, offset)
FilterResultsByPermission(cursor, c, limit, offset) ==
    Page(SelectSeq(cursor, LAMBDA d : HasReadAccess(c, d._id)), limit, offset)

FindCall(coll, fields, limit, offset) ==
    [fn |-> "find", model |-> coll, fields |-> fields,
     limit |-> limit, offset |-> offset]

\* Mutant: find is asked for whole documents instead of the listed fields.
SearchResult_NoProjection(c, coll, query, fields, limit, offset, hasFilter) ==
    LET all == UNION { DOMAIN Documents[i] : i \in 1 .. Len(Documents) }
    IN  IF hasFilter
        THEN FilterResultsByPermission(Find(coll, query, all, 0, 0),
                                       c, limit, offset)
        ELSE Find(coll, query, all, limit, offset)

\* The result of ResourceExt.mongoSearch once the allow-list check and the
\* JSON parse have passed.
SearchResult(c, coll, query, fields, limit, offset, hasFilter) ==
    IF hasFilter
    THEN FilterResultsByPermission(Find(coll, query, fields, 0, 0),
                                   c, limit, offset)
    ELSE Find(coll, query, fields, limit, offset)

SearchCalls(coll, fields, limit, offset, hasFilter) ==
    IF hasFilter
    THEN << FindCall(coll, fields, 0, 0),
            [fn |-> "filterResultsByPermission", model |-> coll,
             fields |-> {}, limit |-> limit, offset |-> offset] >>
    ELSE << FindCall(coll, fields, limit, offset) >>

\* ResourceExt.mongoSearch(params). `type` and `q` are "" when the
\* parameter is missing; hasFilter says whether the model of the collection
\* has the attribute filterSearchResults; ev is what the event handlers do.
mongoSearch(c, type, q, limit, offset, ev, hasFilter) ==
    LET args == [type |-> type, q |-> q, limit |-> limit, offset |-> offset,
                 ev |-> ev, hasFilter |-> hasFilter]
        info == Trigger(allowed, ev)
        query == JsonLoads(q)
    IN  /\ last' =
             IF type = "" \/ q = ""
             THEN Response("mongoSearch", c, args, 400,
                           "Parameter is required.", <<>>, <<>>, {})
             ELSE IF type \notin DOMAIN info
             THEN Response("mongoSearch", c, args, 400,
                           "Invalid resource type", <<>>, <<>>, {})
             ELSE IF ~query.ok
             THEN Response("mongoSearch", c, args, 400,
                           "Invalid JSON passed in request body.",
                           <<>>, <<>>, {})
             ELSE Response("mongoSearch", c, args, 200, "",
                           SearchResult(c, type, query, info[type],
                                        limit, offset, hasFilter),
                           SearchCalls(type, info[type], limit, offset,
                                       hasFilter),
                           {})
        /\ UNCHANGED <<users, tokens, issued, groups, settings, now, reqs>>

SearchTypes == {"", "folder", "item", "user", "assetstore", "token"}

(***************************************************************************)
(* GET /user/{id}/applets.                                                 *)
(***************************************************************************)

\* The applets of the store: the groups holding each role, the deleted
\* flag (meta.applet.deleted) and the users with READ access.
AppletIds == <<"ap1", "ap2", "ap3", "ap4">>

Applets ==
    [a \in {"ap1", "ap2", "ap3", "ap4"} |->
        CASE a = "ap1" -> [roles |-> [user |-> {"g1"}, reviewer |-> {}],
                           deleted |-> FALSE, readers |-> {1, 2}]
          [] a = "ap2" -> [roles |-> [user |-> {"g2"}, reviewer |-> {"g1"}],
                           deleted |-> FALSE, readers |-> {1, 2}]
          [] a = "ap3" -> [roles |-> [user |-> {}, reviewer |-> {}],
                           deleted |-> FALSE, readers |-> {2}]
          [] OTHER -> [roles |-> [user |-> {"g1", "g2"}, reviewer |-> {}],
                       deleted |-> TRUE, readers |-> {1, 2}]]

\* The folders holding the users of an assignment: the users named by
\* their 'userid' child folders (meta.user.@id).
MemberFolders ==
    [f \in {"m1", "m2"} |->
        IF f = "m1" THEN [userIds |-> {1, 2}] ELSE [userIds |-> {2}]]

\* The 'Assignments' folders: those under an 'Assignments' collection
\* (owner NoId) with the users that may see them, and those under a user.
Assignments ==
    << [owner |-> NoId, visibleTo |-> {1, 2}, hasMembers |-> TRUE,
        members |-> << [hasRoles |-> FALSE, hasId |-> TRUE, folder |-> "m1"],
                       [hasRoles |-> TRUE, hasId |-> TRUE, folder |-> "m1"] >>,
        applet |-> "ap3"],
       [owner |-> NoId, visibleTo |-> {1}, hasMembers |-> TRUE,
        members |-> << [hasRoles |-> TRUE, hasId |-> TRUE, folder |-> "gone"],
                       [hasRoles |-> TRUE, hasId |-> TRUE, folder |-> "m1"] >>,
        applet |-> "ap2"],
       [owner |-> 2, visibleTo |-> {2}, hasMembers |-> TRUE,
        members |-> << [hasRoles |-> TRUE, hasId |-> TRUE, folder |-> "m2"] >>,
        applet |-> "ap4"],
       [owner |-> 1, visibleTo |-> {1}, hasMembers |-> FALSE,
        members |-> << >>, applet |-> ""] >>

\* USER_ROLES.keys()
USER_ROLES == {"user", "reviewer"}

RoleStrings == {"user", "Reviewer", "nobody"}

\* str.lower()
Lower(str) ==
    CASE str = "Reviewer" -> "reviewer"
      [] str = "B@X" -> "b@x"
      [] OTHER -> str

\* AppletModel().find({'roles.<role>.groups.id': groupId,
\*                     'meta.applet.deleted': {'$ne': True}})
FindApplets(role, groupId) ==
    SelectSeq(AppletIds,
              LAMBDA a : groupId \in Applets[a].roles[role]
                         /\ ~Applets[a].deleted)

RECURSIVE ChainGroups(_, _, _)
\* itertools.chain.from_iterable over user.get('groups', [])
ChainGroups(role, grps, i) ==
    IF i > Len(grps) THEN << >>
    ELSE FindApplets(role, grps[i]) \o ChainGroups(role, grps, i + 1)

\* The assignments list: the child folders of the 'Assignments'
\* collections the reviewer may see, then the 'Assignments' folders whose
\* parentId is the reviewer's _id.
AssignmentsOf(r) ==
    SelectSeq(Assignments, LAMBDA a : a.owner = NoId /\ r \in a.visibleTo)
    \o SelectSeq(Assignments, LAMBDA a : a.owner # NoId /\ a.owner = r)

RECURSIVE MembersLoop(_, _, _, _, _)
\* The loop over assignment['meta']['members'] inside the try of one
\* assignment: u is `user`, r is `reviewer`, acc the applets list and the
\* model operations that raised so far. FolderModel().load of a folder that
\* is gone and AppletModel().load of an applet that is gone raise inside the
\* outer try (the rest of the assignment is skipped); an AccessException of
\* AppletModel().load is caught by the inner try (the member is skipped).
MembersLoop(a, i, u, r, acc) ==
    IF i > Len(a.members) THEN acc
    ELSE LET m == a.members[i]
         IN  IF ~(m.hasRoles /\ m.hasId)
             THEN MembersLoop(a, i + 1, u, r, acc)
             ELSE IF m.folder \notin DOMAIN MemberFolders
             THEN [acc EXCEPT !.raised = @ \cup {"FolderModel.load"}]
             ELSE IF u \notin MemberFolders[m.folder].userIds
             THEN MembersLoop(a, i + 1, u, r, acc)
             ELSE IF a.applet = ""
             THEN MembersLoop(a, i + 1, u, r, acc)
             ELSE IF a.applet \notin DOMAIN Applets
             THEN [acc EXCEPT !.raised = @ \cup {"AppletModel.load"}]
             ELSE IF r \notin Applets[a.applet].readers
             THEN MembersLoop(a, i + 1, u, r,
                      [acc EXCEPT !.raised = @ \cup {"AppletModel.load"}])
             ELSE IF Applets[a.applet].deleted
             THEN MembersLoop(a, i + 1, u, r, acc)
             ELSE MembersLoop(a, i + 1, u, r,
                      [acc EXCEPT !.applets = Append(@, a.applet)])

RECURSIVE AssignmentsLoop(_, _, _, _, _)
\* for assignment in assignments: try: ... except: print(exc_info()[0])
AssignmentsLoop(as, i, u, r, acc) ==
    IF i > Len(as) THEN acc
    ELSE AssignmentsLoop(as, i + 1, u, r,
             IF as[i].hasMembers THEN MembersLoop(as[i], 1, u, r, acc)
             ELSE acc)

RECURSIVE Dedupe(_, _)
\* {applet.get('_id'): applet for applet in applets}.items(): one entry
\* per _id, in the order of first appearance.
Dedupe(s, seen) ==
    IF s = << >> THEN << >>
    ELSE IF Head(s) \in seen THEN Dedupe(Tail(s), seen)
    ELSE << Head(s) >> \o Dedupe(Tail(s), seen \cup {Head(s)})

\* The applets list of getUserApplets (lines 157-259) for `user` u with
\* groups grps and `reviewer` r.
UserApplets(u, grps, r, role) ==
    LET acc == AssignmentsLoop(AssignmentsOf(r), 1, u, r,
                   [applets |-> ChainGroups(role, grps, 1), raised |-> {}])
    IN  [applets |-> Dedupe(acc.applets, {}), raised |-> acc.raised]

\* user = user if not user else self.getCurrentUser(): the user loaded
\* from `id` is a non-empty document, so it is truthy.
EffectiveUser(user, currentUser) ==
    IF user = NoId THEN user ELSE currentUser

\* AccessType.READ on a user document (modelParam of `id`).
HasUserAccess(c, u) == c = u \/ IsAdmin(c) \/ users[u].public

\* jsonld_expander.formatLdObject(applet, 'applet', reviewer)
FormatLdObject(a) == [applet |-> a, ld |-> "expanded"]

FormatAll(s) == [i \in 1 .. Len(s) |-> FormatLdObject(s[i])]

\* User.getUserApplets(user, role, ids_only); id is the path parameter and
\* badLd the applets on which formatLdObject raises.
getUserApplets(c, id, roleParam, ids_only, badLd) ==
    LET args == [id |-> id, role |-> roleParam, ids_only |-> ids_only,
                 badLd |-> badLd]
        user == EffectiveUser(id, c)
        role == Lower(roleParam)
        res == UserApplets(user, users[user].groups, c, role)
        shown == SelectSeq(res.applets, LAMBDA a : ~Applets[a].deleted)
    IN  /\ last' =
             IF id \notin DOMAIN users
             THEN Response("getUserApplets", c, args, 400,
                           "Invalid user id", <<>>, <<>>, {})
             ELSE IF ~HasUserAccess(c, id)
             THEN Response("getUserApplets", c, args, AccessCode(c),
                           "Read access denied", <<>>, <<>>, {})
             ELSE IF role \notin USER_ROLES
             THEN Response("getUserApplets", c, args, 400,
                           "Invalid user role.", <<>>, <<>>, {})
             ELSE IF user = NoId
             THEN Response("getUserApplets", c, args, 500,
                           "AttributeError", <<>>, <<>>, {})
             ELSE IF ids_only
             THEN Response("getUserApplets", c, args, 200, "",
                           res.applets, <<>>, res.raised)
             ELSE IF \E i \in 1 .. Len(shown) : shown[i] \in badLd
             THEN Response("getUserApplets", c, args, 200, "",
                           << "Exception" >>, <<>>,
                           res.raised \cup {"formatLdObject"})
             ELSE Response("getUserApplets", c, args, 200, "",
                           FormatAll(shown), <<>>, res.raised)
        /\ UNCHANGED <<users, tokens, issued, groups, settings, now, reqs>>

(***************************************************************************)
(* PUT /user/{id}.                                                         *)
(***************************************************************************)

\* AccessType.WRITE on a user document (modelParam of `id`): the user
\* itself, an admin, or a user the access list grants it to.
WriteGrants == { <<2, 1>> }

HasUserWrite(c, u) == c = u \/ IsAdmin(c) \/ <<c, u>> \in WriteGrants

\* The boolean parameter `admin`: "None" when the request leaves it out.
AdminParams == {"None", "True", "False"}
ToBool(b) == b = "True"

\* The enum parameter `status`: "None" when the request leaves it out.
StatusParams == {"None", "pending", "enabled", "disabled"}

\* user.get('status', 'enabled')
GetStatus(user) == IF user.status = "missing" THEN "enabled" ELSE user.status

\* The request values of firstName, lastName and email.
Profiles ==
    { [firstName |-> "A", lastName |-> "A", email |-> "a@x"],
      [firstName |-> "B", lastName |-> "B", email |-> "b@x"],
      [firstName |-> "C", lastName |-> "C", email |-> "not an email"] }

\* UserModel.save validates the document and raises ValidationException
\* on an email that is not one.
SaveValidates(user) == user.email # "not an email"

\* Mutant: the admin flag is set whoever the caller is.
AdminStep_Unchecked(callerAdmin, user, admin) ==
    IF admin = "None" THEN [raise |-> FALSE, user |-> user]
    ELSE [raise |-> FALSE, user |-> [user EXCEPT !.admin = ToBool(admin)]]

\* "Only admins can change admin state" (lines 459-464): the user document
\* after the step, and whether AccessException was raised.
AdminStep(callerAdmin, user, admin) ==
    IF admin = "None" THEN [raise |-> FALSE, user |-> user]
    ELSE IF callerAdmin
    THEN [raise |-> FALSE, user |-> [user EXCEPT !.admin = ToBool(admin)]]
    ELSE [raise |-> user.admin # ToBool(admin), user |-> user]

\* Mutant: the status is set whoever the caller is.
StatusStep_Unchecked(callerAdmin, user, status) ==
    IF status = "None" \/ status = GetStatus(user)
    THEN [raise |-> "", user |-> user, mail |-> FALSE]
    ELSE IF user.status = "missing"
    THEN [raise |-> "KeyError", user |-> user, mail |-> FALSE]
    ELSE [raise |-> "", user |-> [user EXCEPT !.status = status],
          mail |-> user.status = "pending" /\ status = "enabled"]

\* "Only admins can change status" (lines 466-473): the user document
\* after the step, the exception raised ("" for none) and whether the
\* approval email was sent.
StatusStep(callerAdmin, user, status) ==
    IF status = "None" \/ status = GetStatus(user)
    THEN [raise |-> "", user |-> user, mail |-> FALSE]
    ELSE IF ~callerAdmin
    THEN [raise |-> "AccessException", user |-> user, mail |-> FALSE]
    ELSE IF user.status = "missing"
    THEN [raise |-> "KeyError", user |-> user, mail |-> FALSE]
    ELSE [raise |-> "", user |-> [user EXCEPT !.status = status],
          mail |-> user.status = "pending" /\ status = "enabled"]

\* User.updateUser(user, firstName, lastName, email, admin, status)
updateUser(c, id, firstName, lastName, email, admin, status) ==
    LET args == [id |-> id, firstName |-> firstName, lastName |-> lastName,
                 email |-> email, admin |-> admin, status |-> status]
        user0 == [users[id] EXCEPT !.firstName = firstName,
                                   !.lastName = lastName, !.email = email]
        a == AdminStep(IsAdmin(c), user0, admin)
        s == StatusStep(IsAdmin(c), a.user, status)
        mail == IF s.mail THEN << [fn |-> "_sendApprovedEmail"] >> ELSE << >>
        Fail(code, msg, calls, raised) ==
            /\ last' = Response("updateUser", c, args, code, msg, <<>>,
                                calls, raised)
            /\ users' = users
    IN  /\ IF c = NoId
           THEN Fail(401, "You must be logged in.", <<>>, {})
           ELSE IF id \notin DOMAIN users
           THEN Fail(400, "Invalid user id", <<>>, {})
           ELSE IF ~HasUserWrite(c, id)
           THEN Fail(403, "Write access denied", <<>>, {})
           ELSE IF a.raise
           THEN Fail(403, "Only admins may change admin status.", <<>>, {})
           ELSE IF s.raise = "AccessException"
           THEN Fail(403, "Only admins may change status.", <<>>, {})
           ELSE IF s.raise = "KeyError"
           THEN Fail(500, "KeyError", <<>>, {})
           ELSE IF ~SaveValidates(s.user)
           THEN Fail(400, "Invalid email address.",
                     mail \o << [fn |-> "save"] >>, {"save"})
           ELSE /\ last' = Response("updateUser", c, args, 200, "",
                                    << s.user >>,
                                    mail \o << [fn |-> "save"] >>, {})
                /\ users' = [users EXCEPT ![id] = s.user]
        /\ UNCHANGED <<tokens, issued, groups, settings, now, reqs>>

(***************************************************************************)
(* Tokens and settings.                                                    *)
(***************************************************************************)

\* Token().createToken(user, days=..., scope=...): the token and its id.
\* Token ids are never reused.
NewTokenId == TokenNames[issued + 1]

CreateToken(u, days, scope) ==
    [userId |-> u, expires |-> now + days, scope |-> scope]

\* self.sendAuthTokenCookie(user): an auth token for the user, sent as the
\* cookie of the response.
AuthToken(u) == CreateToken(u, settings.cookieLifetime, {"USER_AUTH"})

\* The Setting store is written by the system settings of the instance.
putSetting(key, value) ==
    /\ settings' = [settings EXCEPT ![key] = value]
    /\ last' = Response("putSetting", NoId, [key |-> key, value |-> value],
                        200, "", <<>>, <<>>, {})
    /\ UNCHANGED <<users, tokens, issued, groups, now, reqs>>

\* Time passes.
Tick ==
    /\ now < MaxTime
    /\ now' = now + 1
    /\ last' = Response("tick", NoId, <<>>, 0, "", <<>>, <<>>, {})
    /\ UNCHANGED <<users, tokens, issued, groups, settings, reqs>>

(***************************************************************************)
(* POST /user.                                                             *)
(***************************************************************************)

Logins == {"bob", "carol", "dave"}

\* Mutant: the requested value is handed on whoever the caller is.
AdminArg_AsRequested(callerAdmin, admin) == admin

\* The `admin` argument createUser hands to the user model (lines 376-377).
AdminArg(callerAdmin, admin) == IF ~callerAdmin THEN FALSE ELSE admin

\* The check of the registration policy (lines 376-381).
RegistrationClosed(callerAdmin, regPolicy) ==
    ~callerAdmin /\ regPolicy = "closed"

\* UserModel.createUser: the new document. An account created by anyone
\* but an admin under the 'approve' policy waits for approval.
NewUser(login, password, email, firstName, lastName, admin, callerAdmin) ==
    [admin |-> admin,
     status |-> IF settings.regPolicy = "approve" /\ ~callerAdmin
                THEN "pending" ELSE "enabled",
     login |-> login, firstName |-> firstName, lastName |-> lastName,
     email |-> email, password |-> password, public |-> TRUE,
     groups |-> << >>, otp |-> "none"]

\* UserModel.createUser raises ValidationException on a login that is
\* taken or an email that is not one.
UserValidates(login, email) ==
    /\ \A u \in DOMAIN users : users[u].login # login
    /\ email # "not an email"

\* UserModel.canLogin(user)
CanLogin(user) == user.status = "enabled"

\* GroupModel().findOne({'name': 'New Users'}): the index of the first
\* group of that name, 0 when there is none.
GroupNames == << "n1", "n2", "n3", "n4", "n5" >>

FindGroup(name) ==
    IF \E i \in 1 .. Len(groups) : groups[i].name = name
    THEN CHOOSE i \in 1 .. Len(groups) :
             /\ groups[i].name = name
             /\ \A j \in 1 .. (i - 1) : groups[j].name # name
    ELSE 0

\* User.createUser(login, email, firstName, lastName, password, admin)
createUser(c, login, email, firstName, lastName, password, admin) ==
    LET args == [login |-> login, email |-> email, firstName |-> firstName,
                 lastName |-> lastName, password |-> password,
                 admin |-> admin]
        adminArg == AdminArg(IsAdmin(c), admin)
        id == Cardinality(DOMAIN users) + 1
        user == NewUser(login, password, email, firstName, lastName,
                        adminArg, IsAdmin(c))
        createCall == [fn |-> "createUser", admin |-> adminArg]
        sendToken == c = NoId /\ CanLogin(user)
        g == FindGroup("New Users")
        gi == IF g = 0 THEN Len(groups) + 1 ELSE g
        group == IF g = 0
                 THEN [name |-> "New Users", members |-> {}]
                 ELSE groups[g]
        Fail(msg, calls, raised) ==
            /\ last' = Response("createUser", c, args, 400, msg, <<>>,
                                calls, raised)
            /\ UNCHANGED <<users, tokens, issued, groups>>
    IN  /\ IF RegistrationClosed(IsAdmin(c), settings.regPolicy)
           THEN Fail("Registration on this instance is closed.", <<>>, {})
           ELSE IF ~UserValidates(login, email)
           THEN Fail("ValidationException", << createCall >>,
                     {"createUser"})
           ELSE /\ id <= MaxUsers
                /\ sendToken => issued < MaxTokens
                /\ users' = (id :> [user EXCEPT
                                       !.groups = << GroupNames[gi] >>])
                            @@ users
                /\ IF sendToken
                   THEN /\ tokens' = (NewTokenId :> AuthToken(id)) @@ tokens
                        /\ issued' = issued + 1
                   ELSE UNCHANGED <<tokens, issued>>
                /\ groups' =
                       [i \in 1 .. (IF g = 0 THEN gi ELSE Len(groups)) |->
                           IF i = gi
                           THEN [group EXCEPT !.members = @ \cup {id}]
                           ELSE groups[i]]
                /\ last' = Response("createUser", c, args, 200, "",
                               << [_id |-> id,
                                   authToken |-> IF sendToken
                                                 THEN NewTokenId ELSE ""] >>,
                               << createCall >>
                               \o (IF sendToken
                                   THEN << [fn |-> "sendAuthTokenCookie",
                                            admin |-> FALSE] >>
                                   ELSE << >>)
                               \o (IF g = 0
                                   THEN << [fn |-> "createGroup",
                                            admin |-> FALSE] >>
                                   ELSE << >>)
                               \o << [fn |-> "addUser", admin |-> FALSE] >>,
                               {})
        /\ UNCHANGED <<settings, now, reqs>>

(***************************************************************************)
(* PUT /user/password, PUT /user/password/temporary and                    *)
(* GET /user/password/temporary/{id}.                                      *)
(***************************************************************************)

\* Token().hasScope(token, scope)
HasScope(token, scope) == scope \in token.scope

\* UserModel.hasPassword(user)
HasPassword(user) == user.password # ""

\* UserModel._cryptContext.verify(old, user['salt'])
Verify(old, user) == old = user.password

\* UserModel.setPassword raises ValidationException on a password that is
\* too short.
PasswordValidates(new) == new # "x"

\* Mutant: the owner of the token is not compared with the current user.
TokenRefused_AnyOwner(c, old) ==
    \/ old \notin DOMAIN tokens
    \/ tokens[old].userId = NoId
    \/ ~HasScope(tokens[old], "TEMPORARY_USER_AUTH")

\* The test of lines 510-512 on the token loaded from `old` ("" when
\* Token().load returned None): TRUE when the token does not stand for the
\* password.
TokenRefused(c, old) ==
    \/ old \notin DOMAIN tokens
    \/ tokens[old].userId = NoId
    \/ tokens[old].userId # c
    \/ ~HasScope(tokens[old], "TEMPORARY_USER_AUTH")

\* User.changePassword(old, new)
changePassword(c, old, new) ==
    LET args == [old |-> old, new |-> new]
        usesToken == ~HasPassword(users[c]) \/ ~Verify(old, users[c])
        Fail(code, msg, calls, raised) ==
            /\ last' = Response("changePassword", c, args, code, msg, <<>>,
                                calls, raised)
            /\ UNCHANGED <<users, tokens>>
    IN  /\ IF c = NoId
           THEN Fail(401, "You must be logged in.", <<>>, {})
           ELSE IF old = ""
           THEN Fail(400, "Old password must not be empty.", <<>>, {})
           ELSE IF usesToken /\ TokenRefused(c, old)
           THEN Fail(403, "Old password is incorrect.", <<>>, {})
           ELSE IF ~PasswordValidates(new)
           THEN Fail(400, "ValidationException",
                     << [fn |-> "setPassword"] >>, {"setPassword"})
           ELSE /\ users' = [users EXCEPT ![c].password = new]
                /\ tokens' = IF usesToken
                             THEN [t \in (DOMAIN tokens) \ {old} |->
                                      tokens[t]]
                             ELSE tokens
                /\ last' = Response("changePassword", c, args, 200,
                               "Password changed.", <<>>,
                               << [fn |-> "setPassword"] >>
                               \o (IF usesToken
                                   THEN << [fn |-> "Token.remove"] >>
                                   ELSE << >>),
                               {})
        /\ UNCHANGED <<issued, groups, settings, now, reqs>>

\* self._model.findOne({'email': email.lower()}): the user, or NoId.
FindByEmail(email) ==
    IF \E u \in DOMAIN users : users[u].email = email
    THEN CHOOSE u \in DOMAIN users :
             /\ users[u].email = email
             /\ \A v \in DOMAIN users : users[v].email = email => u <= v
    ELSE NoId

\* The lifetime of a temporary token (days=1).
TemporaryDays == 1

\* User.generateTemporaryPassword(email)
generateTemporaryPassword(c, email) ==
    LET user == FindByEmail(Lower(email))
        args == [email |-> email]
    IN  /\ IF user = NoId
           THEN /\ last' = Response("generateTemporaryPassword", c, args,
                               400, "That email is not registered.",
                               <<>>, <<>>, {})
                /\ UNCHANGED <<tokens, issued>>
           ELSE /\ issued < MaxTokens
                /\ tokens' = (NewTokenId :>
                                 CreateToken(user, TemporaryDays,
                                             {"TEMPORARY_USER_AUTH"}))
                             @@ tokens
                /\ issued' = issued + 1
                /\ last' = Response("generateTemporaryPassword", c, args,
                               200, "Sent temporary access email.", <<>>,
                               << [fn |-> "createToken"],
                                  [fn |-> "sendEmail"] >>, {})
        /\ UNCHANGED <<users, groups, settings, now, reqs>>

\* Token().load(token, user=user, level=AccessType.ADMIN, objectId=False,
\* exc=True): "" when the token is returned, else the exception raised.
\* A token grants ADMIN access to the user it was created for, and an
\* admin has it on every document.
TokenLoad(tk, id) ==
    IF tk \notin DOMAIN tokens THEN "ValidationException"
    ELSE IF ~(IsAdmin(id) \/ tokens[tk].userId = id) THEN "AccessException"
    ELSE ""

\* Mutant: a token that expires now still counts.
GrantsTemporaryAccess_AtExpiry(token, id) ==
    ~( \/ token.userId # id
       \/ token.expires - now < 0
       \/ ~HasScope(token, "TEMPORARY_USER_AUTH") )

\* The test of line 566 on a loaded token: TRUE when the token grants
\* temporary access to the user.
GrantsTemporaryAccess(token, id) ==
    ~( \/ token.userId # id
       \/ token.expires - now <= 0
       \/ ~HasScope(token, "TEMPORARY_USER_AUTH") )

\* The message of the AccessException of line 567.
TemporaryAccessDenied ==
    "The token does not grant temporary access to this user."

\* User.checkTemporaryPassword(user, token)
checkTemporaryPassword(c, id, tk) ==
    LET args == [id |-> id, token |-> tk]
        Fail(code, msg, raised) ==
            /\ last' = Response("checkTemporaryPassword", c, args, code,
                                msg, <<>>, <<>>, raised)
            /\ UNCHANGED <<tokens, issued>>
    IN  /\ IF id \notin DOMAIN users
           THEN Fail(400, "Invalid user id", {})
           ELSE IF TokenLoad(tk, id) = "ValidationException"
           THEN Fail(400, "No such token", {"Token.load"})
           ELSE IF TokenLoad(tk, id) = "AccessException"
           THEN Fail(AccessCode(c), "Admin access denied for token",
                     {"Token.load"})
           ELSE IF ~GrantsTemporaryAccess(tokens[tk], id)
           THEN Fail(AccessCode(c), TemporaryAccessDenied, {})
           ELSE /\ issued < MaxTokens
                /\ tokens' = (NewTokenId :> AuthToken(id)) @@ tokens
                /\ issued' = issued + 1
                /\ last' = Response("checkTemporaryPassword", c, args, 200,
                               "Temporary access token is valid.",
                               << [token |-> NewTokenId,
                                   temporary |-> TRUE] >>,
                               << [fn |-> "sendAuthTokenCookie"] >>, {})
        /\ UNCHANGED <<users, groups, settings, now, reqs>>

(***************************************************************************)
(* GET /user/authentication.                                               *)
(***************************************************************************)

\* self.getCurrentUser(returnToken=True) on a request presenting token tk
\* ("" for none): the user of a token that exists, has not expired and
\* has the USER_AUTH scope, else None.
GetCurrentUser(tk) ==
    IF /\ tk \in DOMAIN tokens
       /\ ~(tokens[tk].expires < now)
       /\ HasScope(tokens[tk], "USER_AUTH")
       /\ tokens[tk].userId \in DOMAIN users
    THEN tokens[tk].userId
    ELSE NoId

\* A header of the request, cut as the handler cuts it: authHeader[0:6]
\* and authHeader[6:]. NoHeader is a header the request does not carry.
NoHeader == [head6 |-> "", tail |-> ""]

HeaderValues ==
    { NoHeader,
      [head6 |-> "Bearer", tail |-> " abc"],
      [head6 |-> "Basic ", tail |-> "Ym9"],
      [head6 |-> "Basic ", tail |-> "Ym9i"],
      [head6 |-> "Basic ", tail |-> "Ym9iOnB3Mg=="],
      [head6 |-> "Basic ", tail |-> "Ym9iOnA6dw=="] }

\* base64.b64decode(authHeader[6:]).decode('utf8')
B64Decode(str) ==
    CASE str = "Ym9iOnB3Mg==" -> [ok |-> TRUE, text |-> "bob:pw2"]
      [] str = "Ym9iOnA6dw==" -> [ok |-> TRUE, text |-> "bob:p:w"]
      [] str = "YWRtaW46cHcx" -> [ok |-> TRUE, text |-> "admin:pw1"]
      [] str = "Ym9i" -> [ok |-> TRUE, text |-> "bob"]
      [] OTHER -> [ok |-> FALSE, text |-> ""]

\* credentials.split(':', 1), and ':' in credentials
Split(credentials) ==
    CASE credentials = "bob:pw2" ->
             [colon |-> TRUE, login |-> "bob", password |-> "pw2"]
      [] credentials = "bob:p:w" ->
             [colon |-> TRUE, login |-> "bob", password |-> "p:w"]
      [] credentials = "admin:pw1" ->
             [colon |-> TRUE, login |-> "admin", password |-> "pw1"]
      [] OTHER -> [colon |-> FALSE, login |-> "", password |-> ""]

\* The header the credentials are taken from (lines 311-314).
AuthHeader(auth, gauth) == IF auth = NoHeader THEN gauth ELSE auth

\* UserModel.authenticate(login, password, otpToken): the user, or NoId
\* when it raises AccessException (no such login, wrong password, an
\* account that may not log in, or a one-time password for a user that
\* has none enabled).
Authenticate(login, password, otp) ==
    IF \E u \in DOMAIN users :
           /\ users[u].login = login
           /\ HasPassword(users[u])
           /\ Verify(password, users[u])
           /\ users[u].status \in {"enabled", "missing"}
           /\ otp = ""
    THEN CHOOSE u \in DOMAIN users : users[u].login = login
    ELSE NoId

\* Mutant: credentials are asked for even of an authenticated request.
NeedsLogin_Always(user) == TRUE

\* "Only create and send new cookie if user isn't already sending a valid
\* one" (line 310).
NeedsLogin(user) == user = NoId

\* User.login(): tk is the token the request presents, auth and gauth its
\* Authorization and Girder-Authorization headers, otp its Girder-OTP one.
login(tk, auth, gauth, otp) ==
    LET args == [token |-> tk, auth |-> auth, gauth |-> gauth, otp |-> otp]
        current == GetCurrentUser(tk)
        authHeader == AuthHeader(auth, gauth)
        decoded == B64Decode(authHeader.tail)
        cred == Split(decoded.text)
        user == Authenticate(cred.login, cred.password, otp)
        decodeCall == [fn |-> "b64decode", login |-> "", password |-> "",
                       otp |-> ""]
        authCall == [fn |-> "authenticate", login |-> cred.login,
                     password |-> cred.password, otp |-> otp]
        Fail(code, msg, calls, raised) ==
            /\ last' = Response("login", current, args, code, msg, <<>>,
                                calls, raised)
            /\ UNCHANGED <<tokens, issued>>
    IN  /\ IF ~settings.passwordLogin
           THEN Fail(400, "Password login is disabled on this instance.",
                     <<>>, {})
           ELSE IF ~NeedsLogin(current)
           THEN /\ last' = Response("login", current, args, 200,
                               "Login succeeded.",
                               << [user |-> current, authToken |-> tk] >>,
                               <<>>, {})
                /\ UNCHANGED <<tokens, issued>>
           ELSE IF authHeader = NoHeader \/ authHeader.head6 # "Basic "
           THEN Fail(401, "Use HTTP Basic Authentication", <<>>, {})
           ELSE IF ~decoded.ok \/ ~cred.colon
           THEN Fail(401, "Invalid HTTP Authorization header",
                     << decodeCall >>, {})
           ELSE IF user = NoId
           THEN Fail(401, "Login failed.", << decodeCall, authCall >>,
                     {"authenticate"})
           ELSE /\ issued < MaxTokens
                /\ tokens' = (NewTokenId :> AuthToken(user)) @@ tokens
                /\ issued' = issued + 1
                /\ last' = Response("login", current, args, 200,
                               "Login succeeded.",
                               << [user |-> user,
                                   authToken |-> NewTokenId] >>,
                               << decodeCall, authCall,
                                  [fn |-> "sendAuthTokenCookie",
                                   login |-> "", password |-> "",
                                   otp |-> ""] >>,
                               {})
        /\ UNCHANGED <<users, groups, settings, now, reqs>>

(***************************************************************************)
(* DELETE /user/authentication.                                            *)
(***************************************************************************)

\* self.getCurrentToken() on a request presenting token tk: the token of
\* the store with that id, "" (None) when there is none.
GetCurrentToken(tk) == IF tk \in DOMAIN tokens THEN tk ELSE ""

\* Mutant: the token is left in the store.
TokensAfterLogout_Kept(token) == tokens

\* The token store after lines 351-352: if token: Token().remove(token)
TokensAfterLogout(token) ==
    IF token # ""
    THEN [t \in (DOMAIN tokens) \ {token} |-> tokens[t]]
    ELSE tokens

\* User.logout(): tk is the token the request presents.
logout(tk) ==
    LET token == GetCurrentToken(tk)
    IN  /\ tokens' = TokensAfterLogout(token)
        /\ last' = Response("logout", GetCurrentUser(tk), [token |-> tk],
                       200, "Logged out.", <<>>,
                       (IF token # ""
                        THEN << [fn |-> "Token.remove"] >> ELSE << >>)
                       \o << [fn |-> "deleteAuthTokenCookie"] >>,
                       {})
        /\ UNCHANGED <<users, issued, groups, settings, now, reqs>>

(***************************************************************************)
(* POST, PUT and DELETE /user/{id}/otp. The OTP configuration of a user    *)
(* document is "none" (no 'otp' key), "initialized" (otp.enabled False) or *)
(* "enabled".                                                              *)
(***************************************************************************)

\* AccessType.ADMIN on a user document (modelParam of `id`).
HasUserAdmin(c, u) == c = u \/ IsAdmin(c)

\* UserModel.hasOtpEnabled(user)
HasOtpEnabled(user) == user.otp = "enabled"

\* The values of the Girder-OTP header: absent, the one-time password the
\* user's TOTP secret gives now, and another one.
OtpHeaders == {"", "123456", "000000"}

\* UserModel.verifyOtp(user, otpToken) raises unless the value is the one
\* the secret gives.
VerifyOtp(user, otpToken) == otpToken = "123456"

\* Mutant: the document is saved before the one-time password is verified.
FinalizePersisted_SavedFirst(user, verified) == [user EXCEPT !.otp = "enabled"]

\* The persisted document after lines 631-635: user['otp']['enabled'] is
\* set on the loaded document, and save runs only if verifyOtp returned.
FinalizePersisted(user, verified) ==
    IF verified THEN [user EXCEPT !.otp = "enabled"] ELSE user

\* The checks of a route with @access.user and modelParam(level=ADMIN):
\* the error response, or code 0 when the handler is entered.
AdminRoute(c, id) ==
    IF c = NoId THEN [code |-> 401, msg |-> "You must be logged in."]
    ELSE IF id \notin DOMAIN users
    THEN [code |-> 400, msg |-> "Invalid user id"]
    ELSE IF ~HasUserAdmin(c, id)
    THEN [code |-> 403, msg |-> "Admin access denied"]
    ELSE [code |-> 0, msg |-> ""]

\* User.initializeOtp(user)
initializeOtp(c, id) ==
    LET args == [id |-> id, otp |-> ""]
        route == AdminRoute(c, id)
    IN  /\ IF route.code # 0
           THEN /\ last' = Response("initializeOtp", c, args, route.code,
                               route.msg, <<>>, <<>>, {})
                /\ users' = users
           ELSE IF HasOtpEnabled(users[id])
           THEN /\ last' = Response("initializeOtp", c, args, 400,
                        "The user has already enabled one-time passwords.",
                        <<>>, <<>>, {})
                /\ users' = users
           ELSE /\ users' = [users EXCEPT ![id].otp = "initialized"]
                /\ last' = Response("initializeOtp", c, args, 200, "",
                               << "totpUri" >>,
                               << [fn |-> "initializeOtp"],
                                  [fn |-> "save"] >>, {})
        /\ UNCHANGED <<tokens, issued, groups, settings, now, reqs>>

\* User.finalizeOtp(user): otpToken is the Girder-OTP header.
finalizeOtp(c, id, otpToken) ==
    LET args == [id |-> id, otp |-> otpToken]
        route == AdminRoute(c, id)
        verified == VerifyOtp(users[id], otpToken)
        Fail(code, msg, calls, raised) ==
            /\ last' = Response("finalizeOtp", c, args, code, msg, <<>>,
                                calls, raised)
            /\ users' = users
    IN  /\ IF route.code # 0
           THEN Fail(route.code, route.msg, <<>>, {})
           ELSE IF otpToken = ""
           THEN Fail(400, "The \"Girder-OTP\" header must be provided.",
                     <<>>, {})
           ELSE IF users[id].otp = "none"
           THEN Fail(400,
                     "The user has not initialized one-time passwords.",
                     <<>>, {})
           ELSE IF HasOtpEnabled(users[id])
           THEN Fail(400,
                     "The user has already enabled one-time passwords.",
                     <<>>, {})
           ELSE /\ users' = [users EXCEPT
                                ![id] = FinalizePersisted(users[id], verified)]
                /\ last' =
                     IF verified
                     THEN Response("finalizeOtp", c, args, 200, "", <<>>,
                                   << [fn |-> "verifyOtp"],
                                      [fn |-> "save"] >>, {})
                     ELSE Response("finalizeOtp", c, args, 403,
                                   "One-time password validation failed",
                                   <<>>, << [fn |-> "verifyOtp"] >>,
                                   {"verifyOtp"})
        /\ UNCHANGED <<tokens, issued, groups, settings, now, reqs>>

\* User.removeOtp(user)
removeOtp(c, id) ==
    LET args == [id |-> id, otp |-> ""]
        route == AdminRoute(c, id)
    IN  /\ IF route.code # 0
           THEN /\ last' = Response("removeOtp", c, args, route.code,
                               route.msg, <<>>, <<>>, {})
                /\ users' = users
           ELSE IF ~HasOtpEnabled(users[id])
           THEN /\ last' = Response("removeOtp", c, args, 400,
                        "The user has not enabled one-time passwords.",
                        <<>>, <<>>, {})
                /\ users' = users
           ELSE /\ users' = [users EXCEPT ![id].otp = "none"]
                /\ last' = Response("removeOtp", c, args, 200, "", <<>>,
                               << [fn |-> "save"] >>, {})
        /\ UNCHANGED <<tokens, issued, groups, settings, now, reqs>>

(***************************************************************************)
(* POST /user, served to several clients at once: each request runs the    *)
(* handler's statements in order, and the statements of different requests *)
(* interleave. Nothing in the handler holds a lock between its reads and   *)
(* its writes of the store.                                                *)
(***************************************************************************)

\* The requests that can be in flight at once.
Procs == 1 .. MaxProcs

\* A request that has not arrived yet.
IdleRequest ==
    [pc |-> "idle", caller |-> NoId, login |-> "", user |-> NoId,
     newUserGroup |-> 0, code |-> 0]

\* The indexes of the groups of a name.
GroupsNamed(name) == { i \in 1 .. Len(groups) : groups[i].name = name }

\* GroupModel().createGroup validates the name before it inserts: run
\* alone it raises ValidationException on a name that is taken; when its
\* validation ran before another request's insert, it inserts a second
\* group of the name.
CreateGroupOutcomes(name) ==
    IF GroupsNamed(name) # {} THEN {"raise", "insert"} ELSE {"insert"}

\* Lines 376-394: the policy check, UserModel.createUser and the token.
cuCreateUser(p, c, name) ==
    LET adminArg == AdminArg(IsAdmin(c), FALSE)
        id == Cardinality(DOMAIN users) + 1
        user == NewUser(name, "pw3", "a@x", "A", "A", adminArg, IsAdmin(c))
        sendToken == c = NoId /\ CanLogin(user)
        args == [login |-> name, email |-> "a@x", firstName |-> "A",
                 lastName |-> "A", password |-> "pw3", admin |-> FALSE]
        createCall == [fn |-> "createUser", admin |-> adminArg]
        Fail(msg, calls, raised) ==
            /\ last' = Response("createUser", c, args, 400, msg, <<>>,
                                calls, raised)
            /\ reqs' = [reqs EXCEPT ![p] =
                           [IdleRequest EXCEPT !.pc = "done", !.caller = c,
                                               !.login = name, !.code = 400]]
            /\ UNCHANGED <<users, tokens, issued>>
    IN  /\ reqs[p].pc = "idle"
        /\ IF RegistrationClosed(IsAdmin(c), settings.regPolicy)
           THEN Fail("Registration on this instance is closed.", <<>>, {})
           ELSE IF ~UserValidates(name, "a@x")
           THEN Fail("ValidationException", << createCall >>,
                     {"createUser"})
           ELSE /\ id <= MaxUsers
                /\ sendToken => issued < MaxTokens
                /\ users' = (id :> user) @@ users
                /\ IF sendToken
                   THEN /\ tokens' = (NewTokenId :> AuthToken(id)) @@ tokens
                        /\ issued' = issued + 1
                   ELSE UNCHANGED <<tokens, issued>>
                /\ reqs' = [reqs EXCEPT ![p] =
                               [IdleRequest EXCEPT !.pc = "findOne",
                                                   !.caller = c,
                                                   !.login = name,
                                                   !.user = id]]
                /\ UNCHANGED last
        /\ UNCHANGED <<groups, settings, now>>

\* Line 397: newUserGroup = GroupModel().findOne({'name': 'New Users'})
cuFindOne(p) ==
    /\ reqs[p].pc = "findOne"
    /\ reqs' = [reqs EXCEPT ![p].newUserGroup = FindGroup("New Users"),
                            ![p].pc = IF FindGroup("New Users") = 0
                                      THEN "createGroup" ELSE "addUser"]
    /\ UNCHANGED <<users, tokens, issued, groups, settings, now, last>>

\* Lines 398-408: no group was found, so the request creates one.
cuCreateGroup(p) ==
    /\ reqs[p].pc = "createGroup"
    /\ \E outcome \in CreateGroupOutcomes("New Users") :
           IF outcome = "raise"
           THEN /\ reqs' = [reqs EXCEPT ![p].pc = "done", ![p].code = 400]
                /\ last' = Response("createUser", reqs[p].caller,
                               [login |-> reqs[p].login], 400,
                               "ValidationException", <<>>,
                               << [fn |-> "createGroup", admin |-> FALSE] >>,
                               {"createGroup"})
                /\ UNCHANGED groups
           ELSE /\ groups' = Append(groups, [name |-> "New Users",
                                             members |-> {}])
                /\ reqs' = [reqs EXCEPT ![p].newUserGroup = Len(groups) + 1,
                                        ![p].pc = "addUser"]
                /\ UNCHANGED last
    /\ UNCHANGED <<users, tokens, issued, settings, now>>

\* Lines 409-417: GroupModel().addUser(newUserGroup, user, READ) and the
\* response.
cuAddUser(p) ==
    LET g == reqs[p].newUserGroup
        id == reqs[p].user
    IN  /\ reqs[p].pc = "addUser"
        /\ groups' = [groups EXCEPT ![g].members = @ \cup {id}]
        /\ users' = [users EXCEPT ![id].groups = Append(@, GroupNames[g])]
        /\ reqs' = [reqs EXCEPT ![p].pc = "done", ![p].code = 200]
        /\ last' = Response("createUser", reqs[p].caller,
                       [login |-> reqs[p].login], 200, "",
                       << [_id |-> id] >>,
                       << [fn |-> "addUser", admin |-> FALSE] >>, {})
        /\ UNCHANGED <<tokens, issued, settings, now>>

(***************************************************************************)
(* The store after construction: an admin and an ordinary user, no token,  *)
(* no group, password login enabled and registration open.                 *)
(***************************************************************************)
InitUsers ==
    [u \in {1, 2} |->
        IF u = 1
        THEN [admin |-> TRUE, status |-> "enabled", login |-> "admin",
              firstName |-> "A", lastName |-> "A", email |-> "a@x",
              password |-> "pw1",
              public |-> FALSE, groups |-> << "g1" >>,
              otp |-> "none"]
        ELSE [admin |-> FALSE, status |-> "missing", login |-> "bob",
              firstName |-> "B", lastName |-> "B", email |-> "b@x",
              password |-> "pw2",
              public |-> TRUE, groups |-> << "g2" >>,
              otp |-> "none"]]

Init ==
    /\ users = InitUsers
    /\ tokens = << >>
    /\ issued = 0
    /\ groups = << >>
    /\ settings = [passwordLogin |-> TRUE, regPolicy |-> "open",
                   cookieLifetime |-> 1]
    /\ now = 0
    /\ last = NoRequest
    /\ reqs = [p \in Procs |-> IdleRequest]

(***************************************************************************)
(* GET /mongo_search on its own.                                           *)
(***************************************************************************)
NextSearch ==
    \E c \in Callers, type \in SearchTypes, q \in QueryStrings \cup {""},
       limit \in {1, 50}, offset \in {0, 1}, ev \in EventHandlers,
       hasFilter \in BOOLEAN :
        mongoSearch(c, type, q, limit, offset, ev, hasFilter)

SpecSearch == Init /\ [][NextSearch]_vars

\* C1: every document mongoSearch returns is one the requesting user has
\* READ access on, whether or not the model provides filterSearchResults.
C1_ResultsFilteredByPermission ==
    (last.op = "mongoSearch" /\ last.code = 200) =>
        \A i \in 1 .. Len(last.body) :
            HasReadAccess(last.caller, last.body[i]._id)

NextApplets ==
    \E c \in Callers, id \in AnyUserId, roleParam \in RoleStrings,
       ids_only \in BOOLEAN, badLd \in {{}, {"ap2"}} :
        getUserApplets(c, id, roleParam, ids_only, badLd)

SpecApplets == Init /\ [][NextApplets]_vars

\* C2: getUserApplets returns the applets of the user loaded from `id`:
\* the groups and the _id that select the applets are those of that user,
\* not those of the caller.
C2_AppletsOfIdUser ==
    (last.op = "getUserApplets" /\ last.code = 200 /\ last.args.ids_only) =>
        last.body = UserApplets(last.args.id, users[last.args.id].groups,
                                last.caller, Lower(last.args.role)).applets

\* C3: no handler recovers locally from an error: when a model operation
\* called by the handler raised, the response is an HTTP error (400, 401 or
\* 403), never a normal result.
C3_NoLocalRecovery ==
    last.raised # {} => last.code \in {400, 401, 403}

(***************************************************************************)
(* PUT /user/{id} on its own.                                              *)
(***************************************************************************)
NextUpdate ==
    \E c \in Callers, id \in (DOMAIN users) \cup {MaxUsers + 1},
       p \in Profiles, admin \in AdminParams, status \in StatusParams :
        updateUser(c, id, p.firstName, p.lastName, p.email, admin, status)

SpecUpdate == Init /\ [][NextUpdate]_vars

\* The step is an updateUser request that passed the login and the
\* modelParam checks.
UpdateStep ==
    /\ last'.op = "updateUser"
    /\ last'.caller # NoId
    /\ last'.args.id \in DOMAIN users
    /\ HasUserWrite(last'.caller, last'.args.id)

Saved == \E i \in 1 .. Len(last'.calls) : last'.calls[i].fn = "save"

\* C5: the persisted admin flag of a user changes only in an updateUser
\* call whose current user is an admin; a non-admin caller passing an
\* admin value different from the user's gets AccessException ('Only
\* admins may change admin status.') and nothing is saved, the
\* firstName/lastName/email of the request included.
C5_OnlyAdminsChangeAdmin ==
    [][ /\ \A u \in DOMAIN users :
              users'[u].admin # users[u].admin =>
                  last'.op = "updateUser" /\ IsAdmin(last'.caller)
        /\ ( /\ UpdateStep
             /\ ~IsAdmin(last'.caller)
             /\ last'.args.admin # "None"
             /\ ToBool(last'.args.admin) # users[last'.args.id].admin )
           => /\ last'.code = 403
              /\ last'.msg = "Only admins may change admin status."
              /\ ~Saved
              /\ users' = users ]_vars

\* A non-admin was refused a change of the admin flag of an admin user.
C5_Witness ==
    /\ last.op = "updateUser"
    /\ last.msg = "Only admins may change admin status."
    /\ last.caller = 2
    /\ last.args.id = 1
    /\ last.args.firstName # users[1].firstName
    /\ users[1].admin /\ ~users[2].admin

StatusChanged(u) == GetStatus(users'[u]) # GetStatus(users[u])

DifferentStatus ==
    /\ last'.args.status # "None"
    /\ last'.args.status # GetStatus(users[last'.args.id])

DifferentAdmin ==
    /\ last'.args.admin # "None"
    /\ ToBool(last'.args.admin) # users[last'.args.id].admin

\* C6 as stated: the persisted status changes only in a call made by an
\* admin; a non-admin passing a different status gets AccessException
\* ('Only admins may change status.') and the user is unchanged; a call
\* whose status equals the current one succeeds for any caller with write
\* access.
C6_Original ==
    [][ /\ \A u \in DOMAIN users :
              StatusChanged(u) =>
                  last'.op = "updateUser" /\ IsAdmin(last'.caller)
        /\ (UpdateStep /\ ~IsAdmin(last'.caller) /\ DifferentStatus)
           => /\ last'.code = 403
              /\ last'.msg = "Only admins may change status."
              /\ users' = users
        /\ (UpdateStep /\ last'.args.status = GetStatus(users[last'.args.id]))
           => last'.code = 200 ]_vars

\* C6 (amended): the persisted status changes only in a call made by an
\* admin; a non-admin passing a different status gets AccessException
\* ('Only admins may change status.', or 'Only admins may change admin
\* status.' when the call also passes a different admin value) and the
\* user is unchanged; a call whose status equals the current one is never
\* refused by the status check: it is saved unless the admin check refuses
\* it or the model's save raises.
C6_OnlyAdminsChangeStatus ==
    [][ /\ \A u \in DOMAIN users :
              StatusChanged(u) =>
                  last'.op = "updateUser" /\ IsAdmin(last'.caller)
        /\ (UpdateStep /\ ~IsAdmin(last'.caller) /\ DifferentStatus)
           => /\ last'.code = 403
              /\ last'.msg = IF DifferentAdmin
                             THEN "Only admins may change admin status."
                             ELSE "Only admins may change status."
              /\ ~Saved
              /\ users' = users
        /\ (UpdateStep /\ last'.args.status = GetStatus(users[last'.args.id]))
           => /\ last'.msg # "Only admins may change status."
              /\ IF ~IsAdmin(last'.caller) /\ DifferentAdmin
                 THEN last'.code = 403 /\ users' = users
                 ELSE /\ Saved
                      /\ last'.code = 200 \/ last'.raised = {"save"}
                      /\ GetStatus(users'[last'.args.id])
                             = last'.args.status ]_vars

\* A non-admin passed its own current status and was saved.
C6_Witness ==
    /\ last.op = "updateUser"
    /\ last.code = 200
    /\ last.caller = 2
    /\ ~users[2].admin
    /\ last.args.id = 2
    /\ last.args.status = "enabled"
    /\ last.args.firstName = "A"
    /\ users[2].firstName = "A"
    /\ users[2].status = "missing"

(***************************************************************************)
(* POST /user, with the registration policy changing.                      *)
(***************************************************************************)
NextCreate ==
    \/ \E c \in Callers, name \in Logins, p \in Profiles,
          admin \in BOOLEAN :
           createUser(c, name, p.email, p.firstName, p.lastName, "pw3",
                      admin)
    \/ \E policy \in {"open", "closed", "approve"} :
           putSetting("regPolicy", policy)

SpecCreate == Init /\ [][NextCreate]_vars

\* C7: when the caller of createUser is anonymous or not an admin, the
\* `admin` argument handed to the user model is False whatever the request
\* asked for (so no user it creates is an admin), and under the 'closed'
\* registration policy the call fails with a RestException before any user
\* is created, any token issued or any group modified.
C7_NoAdminByNonAdmin ==
    [][ (last'.op = "createUser" /\ ~IsAdmin(last'.caller)) =>
          /\ \A i \in 1 .. Len(last'.calls) :
                 last'.calls[i].fn = "createUser" => ~last'.calls[i].admin
          /\ \A u \in (DOMAIN users') \ (DOMAIN users) : ~users'[u].admin
          /\ settings.regPolicy = "closed" =>
                 /\ last'.code = 400
                 /\ last'.msg = "Registration on this instance is closed."
                 /\ last'.calls = << >>
                 /\ users' = users
                 /\ tokens' = tokens
                 /\ groups' = groups ]_vars

\* A non-admin asked for an admin account and got an ordinary one.
C7_Witness ==
    /\ last.op = "createUser"
    /\ last.caller = 2
    /\ ~users[2].admin
    /\ last.args.admin
    /\ last.code = 200
    /\ ~users[last.body[1]._id].admin

(***************************************************************************)
(* The password handlers, with time passing.                               *)
(***************************************************************************)
Passwords == {"", "pw2", "pw9"}

NextPassword ==
    \/ \E c \in Callers, old \in Passwords \cup TokenIds,
          new \in {"pw9", "x"} :
           changePassword(c, old, new)
    \/ \E email \in {"a@x", "B@X", "nobody@x"} :
           generateTemporaryPassword(NoId, email)
    \/ \E c \in {NoId, 1}, id \in (DOMAIN users) \cup {MaxUsers + 1},
          tk \in TokenIds :
           checkTemporaryPassword(c, id, tk)
    \/ Tick

SpecPassword == Init /\ [][NextPassword]_vars

\* `old` stands for the password of user c: it is not empty and is the
\* user's password or the id of a token of that user with the
\* TEMPORARY_USER_AUTH scope.
OldAccepted(c, old) ==
    /\ old # ""
    /\ \/ old = users[c].password
       \/ /\ old \in DOMAIN tokens
          /\ tokens[old].userId = c
          /\ "TEMPORARY_USER_AUTH" \in tokens[old].scope

\* C8: changePassword changes the current user's password only when `old`
\* is not empty and is the user's password or the id of a token of that
\* user with the TEMPORARY_USER_AUTH scope; otherwise it fails ('Old
\* password must not be empty.' or 'Old password is incorrect.') and the
\* password and the token store are unchanged.
C8_ChangePasswordNeedsOld ==
    [][ /\ \A u \in DOMAIN users :
              users'[u].password # users[u].password =>
                  /\ last'.op = "changePassword"
                  /\ last'.caller = u
                  /\ OldAccepted(u, last'.args.old)
        /\ ( /\ last'.op = "changePassword"
             /\ last'.caller # NoId
             /\ ~OldAccepted(last'.caller, last'.args.old) )
           => /\ IF last'.args.old = ""
                 THEN /\ last'.code = 400
                      /\ last'.msg = "Old password must not be empty."
                 ELSE /\ last'.code = 403
                      /\ last'.msg = "Old password is incorrect."
              /\ users' = users
              /\ tokens' = tokens ]_vars

\* A password was changed with a temporary token, which is then gone.
C8_Witness ==
    /\ last.op = "changePassword"
    /\ last.code = 200
    /\ last.args.old \in TokenIds
    /\ last.args.old \notin DOMAIN tokens
    /\ users[last.caller].password = "pw9"

\* The four conditions of the claim on the presented token, for user id.
TemporaryAccess(tk, id) ==
    /\ tk \in DOMAIN tokens
    /\ tokens[tk].userId = id
    /\ tokens[tk].expires > now
    /\ "TEMPORARY_USER_AUTH" \in tokens[tk].scope

CheckStep ==
    /\ last'.op = "checkTemporaryPassword"
    /\ last'.args.id \in DOMAIN users

NoTokenIssued ==
    /\ tokens' = tokens
    /\ issued' = issued
    /\ last'.calls = << >>
    /\ last'.body = << >>

\* C9 as stated: an auth token is issued only if the presented token
\* exists, is the user's, expires strictly in the future and has the
\* TEMPORARY_USER_AUTH scope; otherwise AccessException ('The token does
\* not grant temporary access to this user.') is raised and no auth token
\* or cookie is created.
C9_Original ==
    [][ CheckStep =>
          IF TemporaryAccess(last'.args.token, last'.args.id)
          THEN TRUE
          ELSE /\ NoTokenIssued
               /\ last'.code \in {401, 403}
               /\ last'.msg = TemporaryAccessDenied
      ]_vars

\* C9 (amended): an auth token is issued only under the four conditions;
\* otherwise no auth token or cookie is created and the request fails:
\* with the exception of Token().load when the token does not exist
\* (ValidationException) or user `id` has no ADMIN access on it
\* (AccessException), and else with AccessException ('The token does not
\* grant temporary access to this user.').
C9_TemporaryAccessOnly ==
    [][ CheckStep =>
          IF TemporaryAccess(last'.args.token, last'.args.id)
          THEN /\ last'.code = 200
               /\ last'.body[1].token \in (DOMAIN tokens') \ (DOMAIN tokens)
               /\ tokens'[last'.body[1].token].userId = last'.args.id
          ELSE /\ NoTokenIssued
               /\ IF last'.args.token \notin DOMAIN tokens
                  THEN last'.code = 400 /\ last'.raised = {"Token.load"}
                  ELSE IF ~IsAdmin(last'.args.id)
                          /\ tokens[last'.args.token].userId # last'.args.id
                  THEN /\ last'.code \in {401, 403}
                       /\ last'.raised = {"Token.load"}
                  ELSE /\ last'.code \in {401, 403}
                       /\ last'.raised = {}
                       /\ last'.msg = TemporaryAccessDenied
      ]_vars

\* An auth token was issued on a temporary token presented in time.
C9_Witness ==
    /\ last.op = "checkTemporaryPassword"
    /\ last.code = 200
    /\ now > 0
    /\ last.body[1].token \in DOMAIN tokens
    /\ last.args.token \in DOMAIN tokens
    /\ tokens[last.args.token].expires > now

(***************************************************************************)
(* Login, with temporary tokens issued, the password login setting         *)
(* changing and time passing.                                              *)
(***************************************************************************)
\* The headers of the login requests: Authorization, Girder-Authorization
\* and Girder-OTP.
LoginRequests ==
    { [auth |-> h, gauth |-> NoHeader, otp |-> ""] : h \in HeaderValues }
    \cup
    { [auth |-> NoHeader,
       gauth |-> [head6 |-> "Basic ", tail |-> "YWRtaW46cHcx"], otp |-> ""],
      [auth |-> [head6 |-> "Bearer", tail |-> " abc"],
       gauth |-> [head6 |-> "Basic ", tail |-> "YWRtaW46cHcx"], otp |-> ""],
      [auth |-> [head6 |-> "Basic ", tail |-> "Ym9iOnB3Mg=="],
       gauth |-> NoHeader, otp |-> "123456"] }

NextLogin ==
    \/ \E tk \in {""} \cup TokenIds, r \in LoginRequests :
           login(tk, r.auth, r.gauth, r.otp)
    \/ generateTemporaryPassword(NoId, "B@X")
    \/ \E value \in BOOLEAN : putSetting("passwordLogin", value)
    \/ Tick

SpecLogin == Init /\ [][NextLogin]_vars

\* The header the credentials of the request are taken from carries
\* well-formed Basic credentials.
WellFormed(h) ==
    /\ h.head6 = "Basic "
    /\ B64Decode(h.tail).ok
    /\ Split(B64Decode(h.tail).text).colon

Called(fn) == \E i \in 1 .. Len(last'.calls) : last'.calls[i].fn = fn

\* The handler called authenticate(login, password, otp) on the
\* credentials of the header, and it returned a user.
Authenticated ==
    LET h == AuthHeader(last'.args.auth, last'.args.gauth)
        cred == Split(B64Decode(h.tail).text)
    IN  /\ WellFormed(h)
        /\ \E i \in 1 .. Len(last'.calls) :
               /\ last'.calls[i].fn = "authenticate"
               /\ last'.calls[i].login = cred.login
               /\ last'.calls[i].password = cred.password
               /\ last'.calls[i].otp = last'.args.otp
        /\ "authenticate" \notin last'.raised

\* The parts of C10 that hold whatever the settings are: a login request
\* that is already authenticated parses no credentials, calls no
\* authenticate and leaves the token store alone; one that is not creates
\* a token only after authenticate succeeded on the credentials of a
\* well-formed 'Basic ' header, and on a missing or malformed header
\* creates none.
LoginFrame ==
    /\ last'.op = "login" /\ GetCurrentUser(last'.args.token) # NoId =>
           /\ ~Called("b64decode")
           /\ ~Called("authenticate")
           /\ tokens' = tokens
           /\ issued' = issued
    /\ last'.op = "login" /\ tokens' # tokens =>
           /\ GetCurrentUser(last'.args.token) = NoId
           /\ Authenticated
           /\ last'.body[1].authToken \in (DOMAIN tokens') \ (DOMAIN tokens)
    /\ ( /\ last'.op = "login"
         /\ GetCurrentUser(last'.args.token) = NoId
         /\ ~WellFormed(AuthHeader(last'.args.auth, last'.args.gauth)) )
       => /\ tokens' = tokens
          /\ issued' = issued
          /\ ~Called("authenticate")

\* C10 as stated: an authenticated login request is answered with the
\* token it presented, with no credentials parsed, no authenticate call
\* and no change of the token store; an unauthenticated one creates a
\* token only after authenticate succeeded on a well-formed 'Basic '
\* header, and fails with 401 on a missing or malformed one.
C10_Original ==
    [][ /\ LoginFrame
        /\ last'.op = "login" /\ GetCurrentUser(last'.args.token) # NoId =>
               /\ last'.code = 200
               /\ last'.body[1].authToken = last'.args.token
        /\ ( /\ last'.op = "login"
             /\ GetCurrentUser(last'.args.token) = NoId
             /\ ~WellFormed(AuthHeader(last'.args.auth, last'.args.gauth)) )
           => last'.code = 401 ]_vars

\* C10 (amended): as stated while password login is enabled on the
\* instance; while it is disabled every login request fails with
\* RestException ('Password login is disabled on this instance.', 400)
\* before anything else, with no credentials parsed, no authenticate call
\* and no token created.
C10_LoginOnlyWithoutToken ==
    [][ /\ LoginFrame
        /\ ( /\ last'.op = "login"
             /\ settings.passwordLogin
             /\ GetCurrentUser(last'.args.token) # NoId )
           => /\ last'.code = 200
              /\ last'.body[1].authToken = last'.args.token
        /\ ( /\ last'.op = "login"
             /\ settings.passwordLogin
             /\ GetCurrentUser(last'.args.token) = NoId
             /\ ~WellFormed(AuthHeader(last'.args.auth, last'.args.gauth)) )
           => last'.code = 401
        /\ (last'.op = "login" /\ ~settings.passwordLogin)
           => /\ last'.code = 400
              /\ last'.msg = "Password login is disabled on this instance."
              /\ last'.calls = << >>
              /\ tokens' = tokens ]_vars

\* An authenticated request logged in again and got its own token back,
\* while another token had been created by a login with credentials.
C10_Witness ==
    /\ last.op = "login"
    /\ last.code = 200
    /\ last.args.token \in DOMAIN tokens
    /\ last.body[1].authToken = last.args.token
    /\ last.calls = << >>
    /\ last.args.auth.tail = "Ym9iOnB3Mg=="

(***************************************************************************)
(* Login and logout, with temporary tokens issued and time passing.        *)
(***************************************************************************)
NextLogout ==
    \/ \E tk \in {""} \cup TokenIds, r \in LoginRequests :
           login(tk, r.auth, r.gauth, r.otp)
    \/ \E tk \in {""} \cup TokenIds : logout(tk)
    \/ generateTemporaryPassword(NoId, "B@X")
    \/ Tick

SpecLogout == Init /\ [][NextLogout]_vars

\* The ids of the tokens issued so far.
IssuedIds == { TokenNames[i] : i \in 1 .. issued }

\* C11: after a logout that presented a token of the store, the token is
\* no longer in the store, and a token that has left the store never
\* comes back, so no later request presenting it is authenticated (a login
\* presenting it is not answered with it); a logout without such a token
\* removes nothing; in both cases logout deletes the auth cookie and
\* returns 'Logged out.', a second logout after a first included.
C11_LogoutEndsSession ==
    [][ /\ last'.op = "logout" =>
               /\ last'.code = 200
               /\ last'.msg = "Logged out."
               /\ \E i \in 1 .. Len(last'.calls) :
                      last'.calls[i].fn = "deleteAuthTokenCookie"
               /\ last'.args.token \notin DOMAIN tokens'
               /\ \A t \in DOMAIN tokens :
                      t # last'.args.token =>
                          t \in DOMAIN tokens' /\ tokens'[t] = tokens[t]
               /\ last'.args.token \notin DOMAIN tokens => tokens' = tokens
        /\ \A t \in IssuedIds \ DOMAIN tokens :
               /\ t \notin DOMAIN tokens'
               /\ GetCurrentUser(t)' = NoId
               /\ (last'.op = "login" /\ last'.args.token = t
                   /\ last'.code = 200)
                  => last'.body[1].authToken # t ]_vars

\* A token was removed by a logout, and a second logout presenting it
\* succeeded the same way.
C11_Witness ==
    /\ last.op = "logout"
    /\ last.args.token \in IssuedIds
    /\ last.args.token \notin DOMAIN tokens
    /\ Len(last.calls) = 1
    /\ last.msg = "Logged out."

(***************************************************************************)
(* The OTP handlers.                                                       *)
(***************************************************************************)
NextOtp ==
    \/ \E c \in Callers, id \in (DOMAIN users) \cup {MaxUsers + 1} :
           initializeOtp(c, id)
    \/ \E c \in Callers, id \in (DOMAIN users) \cup {MaxUsers + 1},
          otpToken \in OtpHeaders :
           finalizeOtp(c, id, otpToken)
    \/ \E c \in Callers, id \in (DOMAIN users) \cup {MaxUsers + 1} :
           removeOtp(c, id)

SpecOtp == Init /\ [][NextOtp]_vars

\* The step is a finalizeOtp request that entered the handler.
FinalizeStep ==
    /\ last'.op = "finalizeOtp"
    /\ AdminRoute(last'.caller, last'.args.id).code = 0

\* C12: finalizeOtp never persists a failed enablement: when verifyOtp
\* raises, save is not called and the persisted user is unchanged, its
\* OTP configuration still 'initialized, not enabled', so that a later
\* finalizeOtp with a correct value succeeds (every finalizeOtp with the
\* correct value on such a user enables OTP); a missing Girder-OTP header,
\* an uninitialized OTP and an already enabled OTP each fail with a
\* RestException (400) and leave the persisted user unchanged.
C12_FailedOtpNotPersisted ==
    [][ FinalizeStep =>
          LET id == last'.args.id
              saved == \E i \in 1 .. Len(last'.calls) :
                           last'.calls[i].fn = "save"
          IN  /\ "verifyOtp" \in last'.raised =>
                     /\ ~saved
                     /\ last'.code \in {401, 403}
                     /\ users' = users
                     /\ users'[id].otp = "initialized"
              /\ ( \/ last'.args.otp = ""
                   \/ users[id].otp = "none"
                   \/ users[id].otp = "enabled" )
                 => /\ last'.code = 400
                    /\ last'.raised = {}
                    /\ ~saved
                    /\ users' = users
              /\ (users[id].otp = "initialized" /\ last'.args.otp # "") =>
                     IF VerifyOtp(users[id], last'.args.otp)
                     THEN /\ last'.code = 200
                          /\ saved
                          /\ users'[id].otp = "enabled"
                     ELSE "verifyOtp" \in last'.raised ]_vars

\* A finalizeOtp with a wrong one-time password failed and left the user
\* initialized, not enabled.
C12_Witness ==
    /\ last.op = "finalizeOtp"
    /\ last.raised = {"verifyOtp"}
    /\ last.args.otp = "000000"
    /\ users[last.args.id].otp = "initialized"

(***************************************************************************)
(* POST /user under concurrent requests.                                   *)
(***************************************************************************)

\* A store that holds the first admin only, and no group.
InitConcurrent ==
    /\ users = [u \in {1} |-> InitUsers[u]]
    /\ tokens = << >>
    /\ issued = 0
    /\ groups = << >>
    /\ settings = [passwordLogin |-> TRUE, regPolicy |-> "open",
                   cookieLifetime |-> 1]
    /\ now = 0
    /\ last = NoRequest
    /\ reqs = [p \in Procs |-> IdleRequest]

NextConcurrent ==
    \/ \E p \in Procs, c \in {NoId, 1}, name \in Logins :
           cuCreateUser(p, c, name)
    \/ \E p \in Procs : cuFindOne(p)
    \/ \E p \in Procs : cuCreateGroup(p)
    \/ \E p \in Procs : cuAddUser(p)

SpecConcurrent == InitConcurrent /\ [][NextConcurrent]_vars

\* No request is between two of its statements.
Quiescent == \A p \in Procs : reqs[p].pc \in {"idle", "done"}

\* The users that createUser created.
CreatedUsers == { reqs[p].user : p \in Procs } \ {NoId}

\* C13: once every concurrent createUser request has returned, every user
\* that createUser created is a member of a group named "New Users", and
\* exactly one group of that name exists.
C13_AllNewUsersInOneGroup ==
    (Quiescent /\ CreatedUsers # {}) =>
        /\ \A u \in CreatedUsers :
               \E g \in GroupsNamed("New Users") : u \in groups[g].members
        /\ Cardinality(GroupsNamed("New Users")) = 1

====
